---- MODULE Spec2Model ----
(***************************************************************************)
(* The /channel-list slash command of channel-list-tool, in its two        *)
(* variants:                                                               *)
(*   "A"  src/app.js              (HTTP receiver)                          *)
(*   "B"  src/unnamed/part_000    (Socket Mode)                            *)
(*                                                                         *)
(* Spec is one invocation of the handler.  SpecLive adds fairness, with an  *)
(* upstream that serves few pages; SpecParse is the handler up to its      *)
(* first page requests, over command texts of many kinds; SpecTwice is the *)
(* command given twice, the second time against an upstream that repeats   *)
(* what it gave the first time.                                            *)
(*                                                                         *)
(* The handler is an async function: it runs synchronously from one await  *)
(* to the next, so every                                                   *)
(* action below is the completion of one awaited remote operation (ack,    *)
(* users.info, users.conversations, say) followed by all the code that     *)
(* runs until the next await, including the remote calls issued there.     *)
(*                                                                         *)
(* A JavaScript string that is parsed is a sequence of one-character       *)
(* strings.  A message text is the sequence of its lines (the text split   *)
(* on "\n"): the empty string is <<"">>, and "a\n\nb" is <<"a", "", "b">>. *)
(***************************************************************************)
EXTENDS Integers, Sequences, FiniteSets, TLC

\* ------------------------------------------------------------------ bounds

\* Longest command text, in whitespace-separated tokens.
MaxTokens == 3
\* Most page requests the upstream lets one invocation issue, its two
\* pagination loops together: the upstream returns a next cursor only while
\* fewer have been issued.
MaxRequests == 4
\* The same, where progress is checked and where two invocations are
\* compared.
MaxRequestsFew == 2

\* ------------------------------------------------------- JavaScript values

\* The value undefined of a property that is absent.
UNDEFINED == "<undefined>"
\* The value null.
NULL == "<null>"

\* Truthiness of a string-valued expression (undefined, null and "" are falsy).
Truthy(v) == v \notin {UNDEFINED, NULL, ""}

\* What a template literal `${v}` prints.
Interp(v) == IF v = UNDEFINED THEN "undefined" ELSE IF v = NULL THEN "null" ELSE v

\* a || b
OrElse(a, b) == IF Truthy(a) THEN a ELSE b

\* All sequences over S of length at most n.
SeqsUpTo(S, n) == UNION {[1..k -> S] : k \in 0..n}

\* ------------------------------------------------------------ input parser

WhiteSpace == {" ", "\t", "\n"}

\* The class [A-Z0-9] of the mention pattern.
IdChars ==
    {"A","B","C","D","E","F","G","H","I","J","K","L","M","N","O","P","Q","R",
     "S","T","U","V","W","X","Y","Z","0","1","2","3","4","5","6","7","8","9"}

RECURSIVE TrimStart(_)
TrimStart(s) ==
    IF s # <<>> /\ Head(s) \in WhiteSpace THEN TrimStart(Tail(s)) ELSE s

RECURSIVE TrimEnd(_)
TrimEnd(s) ==
    IF s # <<>> /\ s[Len(s)] \in WhiteSpace
    THEN TrimEnd(SubSeq(s, 1, Len(s) - 1)) ELSE s

\* String.prototype.trim
Trim(s) == TrimEnd(TrimStart(s))

\* String.prototype.split(/\s+/): the pieces between the maximal runs of
\* white space; the empty string gives one empty piece.
RECURSIVE SplitFrom(_, _)
SplitFrom(s, cur) ==
    IF s = <<>> THEN <<cur>>
    ELSE IF Head(s) \in WhiteSpace
         THEN <<cur>> \o SplitFrom(TrimStart(s), <<>>)
         ELSE SplitFrom(Tail(s), Append(cur, Head(s)))

Split(s) == SplitFrom(s, <<>>)

\* The length of the longest run of IdChars of s that starts at position i.
RECURSIVE IdRun(_, _)
IdRun(s, i) ==
    IF i <= Len(s) /\ s[i] \in IdChars THEN 1 + IdRun(s, i + 1) ELSE 0

\* /<@([A-Z0-9]+)>/ matches s at position i.
MatchesAt(s, i) ==
    /\ i + 3 <= Len(s)
    /\ s[i] = "<"
    /\ s[i + 1] = "@"
    /\ IdRun(s, i + 2) >= 1
    /\ i + 2 + IdRun(s, i + 2) <= Len(s)
    /\ s[i + 2 + IdRun(s, i + 2)] = ">"

\* extractUserId: the first capture of the leftmost match, or null
\* (null is the empty sequence: a capture is never empty).
ExtractUserId(mention) ==
    LET at == {i \in 1..Len(mention) : MatchesAt(mention, i)}
    IN  IF at = {} THEN <<>>
        ELSE LET i == CHOOSE k \in at : \A m \in at : k <= m
             IN  SubSeq(mention, i + 2, i + 1 + IdRun(mention, i + 2))

\* A token, or a capture, that is not the empty string (null).
NonEmpty(x) == x # <<>>

\* The tokens of the command text: variant B drops the empty ones.
Users(v, txt) ==
    IF v = "A" THEN Split(Trim(txt))
    ELSE SelectSeq(Split(Trim(txt)), NonEmpty)

\* The entries of s without those that repeat an earlier one.
RECURSIVE Distinct(_)
Distinct(s) ==
    IF s = <<>> THEN <<>>
    ELSE LET r == Distinct(SubSeq(s, 1, Len(s) - 1))
         IN  IF \E k \in 1..Len(r) : r[k] = s[Len(s)] THEN r
             ELSE Append(r, s[Len(s)])

\* A parser that drops a user ID it has extracted before.
UserIdsDistinct(v, txt) ==
    Distinct(SelectSeq([i \in 1..Len(Users(v, txt)) |-> ExtractUserId(Users(v, txt)[i])],
                       NonEmpty))

\* userIds: the user IDs of the tokens that match, in token order.
UserIds(v, txt) ==
    SelectSeq([i \in 1..Len(Users(v, txt)) |-> ExtractUserId(Users(v, txt)[i])],
              NonEmpty)

\* ------------------------------------------------------------ message texts

\* a + b on message texts: the last line of a runs on into the first of b.
Cat(a, b) == SubSeq(a, 1, Len(a) - 1) \o <<a[Len(a)] \o b[1]>> \o Tail(b)

\* Array.prototype.join('\n') of one-line strings; the empty array gives "".
JoinNL(items) == IF items = <<>> THEN <<"">> ELSE items

\* Truthiness of a message text: only "" is falsy.
TruthyText(t) == t # <<"">>

Section(t) == [type |-> "section", text |-> t]
Divider == [type |-> "divider", text |-> <<>>]

\* The argument of the say of the no-user usage hint (variant B: of the
\* usage hint for no user and for more than two).  The grave accents around
\* the usage line are written as apostrophes.
UsageMessage(v) ==
    IF v = "A"
    THEN [blocks |-> <<Section(<<"Please specify one or two users to get their channel list. ",
                                 "",
                                 "*Usage:* '/channel-list @user1 [@user2]'">>)>>,
          text |-> <<"Please specify one or two users to get their channel list. Usage: /channel-list @user1 [@user2]">>]
    ELSE [blocks |-> <<Section(<<"Please specify *one or two* users.",
                                 "",
                                 "*Usage:* '/channel-list @user1 [@user2]'">>)>>,
          text |-> <<"Please specify one or two users. Usage: /channel-list @user1 [@user2]">>]

\* The argument of the say of variant A's final else branch.
MaxUsersMessage ==
    [blocks |-> <<Section(<<"This command supports a maximum of two users. ",
                            "",
                            "*Usage:* '/channel-list @user1 [@user2]'">>)>>,
     text |-> <<"This command supports a maximum of two users.">>]

\* The text of the error response up to the error's message.
ErrorPrefix(v) ==
    IF v = "A"
    THEN "An error occurred while processing your request. Please check the permissions and try again. Error: "
    ELSE "An error occurred: "

\* An error response that leaves the error's message out.
ErrorMessageWithoutCause(v, msg) ==
    [blocks |-> <<>>, text |-> <<"An error occurred while processing your request.">>]

\* The argument of the say of the catch block: a text and no blocks.
ErrorMessage(v, msg) ==
    [blocks |-> <<>>, text |-> <<ErrorPrefix(v) \o Interp(msg)>>]

\* The name a report shows for a user.
DisplayName(v, u) ==
    IF v = "A" THEN Interp(u.real_name) ELSE Interp(OrElse(u.real_name, u.name))

\* getChannelText of variant A, link of variant B.
ChannelLink(c) == "- <#" \o Interp(c.id) \o "|" \o Interp(c.name) \o ">"

\* One line of the single-user list.
SingleItem(v, c) == IF v = "A" THEN "- #" \o Interp(c.name) ELSE ChannelLink(c)

\* A list that leaves the last channel out.
SingleListShort(v, ch) == JoinNL([i \in 1..(Len(ch) - 1) |-> SingleItem(v, ch[i])])

\* channelList (A), list (B)
SingleList(v, ch) == JoinNL([i \in 1..Len(ch) |-> SingleItem(v, ch[i])])

\* What the single-user report shows for the list.
SingleListShown(v, ch) ==
    IF v = "A" THEN SingleList(v, ch)
    ELSE IF TruthyText(SingleList(v, ch)) THEN SingleList(v, ch)
         ELSE <<"_No channels found._">>

\* The argument of the say of the single-user branch.
SingleUserMessage(v, u1, ch) ==
    IF v = "A"
    THEN [blocks |-> <<Section(Cat(<<"*Here is the list of channels for " \o DisplayName(v, u1) \o ":*",
                                     "",
                                     "Total Channels: " \o ToString(Len(ch)),
                                     "",
                                     "">>,
                                   SingleListShown(v, ch)))>>,
          text |-> <<"Channel list for " \o DisplayName(v, u1) \o ".">>]
    ELSE [blocks |-> <<Section(Cat(<<"*Channels for " \o DisplayName(v, u1) \o ":*",
                                     "",
                                     "*Total:* " \o ToString(Len(ch)),
                                     "",
                                     "">>,
                                   SingleListShown(v, ch)))>>,
          text |-> <<"Channel list for " \o DisplayName(v, u1) \o ".">>]

\* ------------------------------------------------------------- comparison

\* new Set(channels.map(c => c.id))
IdSet(ch) == {ch[i].id : i \in 1..Len(ch)}

\* The shared channels taken from the second user's listing.
SharedChannelsOfSecond(c1, c2) == SelectSeq(c2, LAMBDA c : c.id \in IdSet(c1))

\* sharedChannels (A), shared (B)
SharedChannels(c1, c2) == SelectSeq(c1, LAMBDA c : c.id \in IdSet(c2))

\* user1UniqueChannels (A), u1Only (B)
User1UniqueChannels(c1, c2) == SelectSeq(c1, LAMBDA c : c.id \notin IdSet(c2))

\* A filter of the second user's channels against the wrong ID set.
User2UniqueAgainstOwnSet(c1, c2) == SelectSeq(c2, LAMBDA c : c.id \notin IdSet(c2))

\* user2UniqueChannels (A), u2Only (B)
User2UniqueChannels(c1, c2) == SelectSeq(c2, LAMBDA c : c.id \notin IdSet(c1))

Comparison(c1, c2) ==
    [shared |-> SharedChannels(c1, c2),
     u1Only |-> User1UniqueChannels(c1, c2),
     u2Only |-> User2UniqueChannels(c1, c2)]

LinkList(ch) == JoinNL([i \in 1..Len(ch) |-> ChannelLink(ch[i])])

\* sharedChannelList
SharedListShown(v, ch) ==
    IF Len(ch) > 0 THEN LinkList(ch)
    ELSE IF v = "A" THEN <<"No shared channels found.">>
         ELSE <<"_No shared channels found._">>

\* user1UniqueList, user2UniqueList
UniqueListShown(v, u, ch) ==
    IF Len(ch) > 0 THEN LinkList(ch)
    ELSE IF v = "A" THEN <<DisplayName(v, u) \o " has no unique channels.">>
         ELSE <<"_" \o DisplayName(v, u) \o " has no unique channels._">>

\* The argument of the say of the two-user branch.
ComparisonMessage(v, u1, u2, c1, c2, r) ==
    [blocks |->
       << Section(<<"*Channel Membership Report for " \o DisplayName(v, u1)
                     \o " and " \o DisplayName(v, u2) \o "*">>),
          Divider,
          Section(IF v = "A"
                  THEN <<"*Total Channels:* " \o ToString(Len(c1)) \o " for " \o DisplayName(v, u1)
                            \o ", " \o ToString(Len(c2)) \o " for " \o DisplayName(v, u2),
                         "*Shared Channels:* " \o ToString(Len(r.shared)),
                         "*Unique Channels:* " \o ToString(Len(r.u1Only)) \o " for " \o DisplayName(v, u1)
                            \o ", " \o ToString(Len(r.u2Only)) \o " for " \o DisplayName(v, u2)>>
                  ELSE <<"*Totals:* " \o ToString(Len(c1)) \o " for " \o DisplayName(v, u1)
                            \o ", " \o ToString(Len(c2)) \o " for " \o DisplayName(v, u2),
                         "*Shared:* " \o ToString(Len(r.shared)),
                         "*Unique:* " \o ToString(Len(r.u1Only)) \o " vs " \o ToString(Len(r.u2Only))>>),
          Divider,
          Section(Cat(<<"*Shared Channels*", "">>, SharedListShown(v, r.shared))),
          Section(Cat(<<(IF v = "A" THEN "*Channels Unique to " ELSE "*Unique to ")
                           \o DisplayName(v, u1) \o "*", "">>,
                      UniqueListShown(v, u1, r.u1Only))),
          Section(Cat(<<(IF v = "A" THEN "*Channels Unique to " ELSE "*Unique to ")
                           \o DisplayName(v, u2) \o "*", "">>,
                      UniqueListShown(v, u2, r.u2Only))) >>,
     text |-> <<"Channel membership report.">>]

\* -------------------------------------------------------------- environment

\* The mention tokens and the plain word a command text is made of.
Mention1 == <<"<", "@", "U", "1", ">">>
Mention2 == <<"<", "@", "U", "2", ">">>
PlainWord == <<"b", "o", "b">>

\* The tokens of ts, one space between two.
RECURSIVE JoinSpace(_)
JoinSpace(ts) ==
    IF ts = <<>> THEN <<>>
    ELSE IF Len(ts) = 1 THEN ts[1]
         ELSE ts[1] \o <<" ">> \o JoinSpace(Tail(ts))

\* The command texts an invocation is given: up to MaxTokens mentions, a
\* plain word, and a plain word before a mention.
Texts ==
    {JoinSpace(ts) : ts \in SeqsUpTo({Mention1, Mention2}, MaxTokens)}
    \cup {PlainWord, JoinSpace(<<PlainWord, Mention1>>)}

\* Tokens that are no plain mention: a mention with a label, one with a
\* lower-case ID, one inside other characters, and two mentions with no
\* white space between them.
Labelled == <<"<", "@", "U", "1", "|", "a", ">">>
LowerCase == <<"<", "@", "u", "1", ">">>
Embedded == <<"x", "<", "@", "U", "2", ">", ",">>
Doubled == <<"<", "@", "U", "2", ">", "<", "@", "U", "1", ">">>

\* The tokens of ts, sep between two.
RECURSIVE JoinWith(_, _)
JoinWith(ts, sep) ==
    IF ts = <<>> THEN <<>>
    ELSE IF Len(ts) = 1 THEN ts[1]
         ELSE ts[1] \o sep \o JoinWith(Tail(ts), sep)

\* Command texts of all kinds of tokens, separated by one or by several
\* white-space characters, with and without white space around them.
ParsedTexts ==
    {pad \o JoinWith(ts, sep) \o pad :
        ts \in SeqsUpTo({Mention1, Mention2, PlainWord, Labelled, LowerCase,
                         Embedded, Doubled}, MaxTokens),
        sep \in {<<" ">>, <<"\t", " ">>},
        pad \in {<<>>, <<" ", "\n">>}}

\* The profile users.info returns for a user ID: U2 has no real_name.
ProfileOf(id) ==
    IF id = <<"U", "1">> THEN [id |-> id, real_name |-> "Alice", name |-> "alice"]
    ELSE IF id = <<"U", "2">> THEN [id |-> id, real_name |-> UNDEFINED, name |-> "bob"]
         ELSE [id |-> id, real_name |-> "Carol", name |-> "carol"]

NoUser == [id |-> <<>>, real_name |-> UNDEFINED, name |-> UNDEFINED]

\* The channels of the workspace, and the pages users.conversations returns:
\* a page always carries its channels array, of at most one channel here, and
\* the upstream may list a channel again on a later page.
Channels == {[id |-> "C1", name |-> "general"], [id |-> "C2", name |-> "eng"]}
Pages == SeqsUpTo(Channels, 1)

\* The messages of the errors the remote calls fail with.
LookupErrors == {"user_not_found", "ratelimited"}
PageErrors == {"missing_scope", "ratelimited"}
SayErrors == {"channel_not_found"}
AckErrors == {"ack_failed"}

\* The next cursor of the k-th page of a well-behaved upstream.
FreshCursor(k) == "c" \o ToString(k)

\* ------------------------------------------------------------------- state

VARIABLES
    variant,    \* which file is deployed: "A" or "B"
    text,       \* command.text
    pc,         \* where the handler is: "idle", "ack", "lookup", "fetch",
                \* "say" (a say of the try block), "catch" (the say of the
                \* catch block), "done" (returned), "crashed" (rejected)
    ack,        \* ack(): "none", "called", "done", "failed"
    userIds,    \* userIds
    lookup,     \* per user ID, its users.info call: [st, user]
    loop,       \* per fetchUserChannels call (1, 2): its local state and
                \* what the upstream has seen of it and given it
    cmp,        \* shared / unique channels of the two-user branch
    says,       \* the say calls, in order: [site, arg, st]
    caught,     \* the message of the error the catch block received
    logged,     \* console.error
    failures,   \* the remote calls that failed, in order: [op, who, msg],
                \* who being the lookup, the loop or the say call
    prev        \* what an earlier invocation with the same command text
                \* was given and said (NoPrev: there was none)

vars == <<variant, text, pc, ack, userIds, lookup, loop, cmp, says, caught,
          logged, failures, prev>>

IdleLoop ==
    [st |-> "idle", user |-> <<>>, all |-> <<>>, cursor |-> NULL,
     nreq |-> 0, reqCursor |-> NULL,
     sent |-> <<>>, nserved |-> 0, lastMeta |-> NULL, returned |-> {},
     repeated |-> FALSE, served |-> <<>>]

NoComparison == [shared |-> <<>>, u1Only |-> <<>>, u2Only |-> <<>>]

NoPrev == [run |-> 0]

Init ==
    /\ variant \in {"A", "B"}
    /\ text = <<>>
    /\ pc = "idle"
    /\ ack = "none"
    /\ userIds = <<>>
    /\ lookup = <<>>
    /\ loop = [j \in 1..2 |-> IdleLoop]
    /\ cmp = NoComparison
    /\ says = <<>>
    /\ caught = NULL
    /\ logged = <<>>
    /\ failures = <<>>
    /\ prev = NoPrev

\* ----------------------------------------------------------------- handler

\* await say(arg), issued at the named place of the code.
SayCall(site, arg) == [site |-> site, arg |-> arg, st |-> "inflight"]

\* The catch block up to its await.
Catch(msg) ==
    /\ logged' = Append(logged, msg)
    /\ caught' = msg
    /\ says' = Append(says, SayCall("error", ErrorMessage(variant, msg)))
    /\ pc' = "catch"

\* The usage check that precedes the lookups.
UsageBranch(v, ids) ==
    IF v = "A" THEN Len(ids) = 0 ELSE Len(ids) = 0 \/ Len(ids) > 2

\* The initial value of cursor in fetchUserChannels.
InitialCursor(v) == IF v = "A" THEN NULL ELSE UNDEFINED

\* A loop that keeps asking with the first cursor it was given.
NextCursorOfFirstPage(v, meta) == IF Truthy(meta) THEN FreshCursor(1) ELSE NULL

\* cursor = ... next_cursor ...; meta is the next_cursor of the response, or
\* UNDEFINED when the response has no response_metadata.
NextCursor(v, meta) ==
    IF v = "A" THEN (IF meta = UNDEFINED THEN NULL ELSE meta)
    ELSE OrElse(meta, NULL)

\* while (cursor)
LoopContinues(cursor) == Truthy(cursor)

\* A loop that keeps the last page only.
KeepLastPage(allChannels, channels) == channels

\* allChannels.concat(result.channels)
ConcatChannels(allChannels, channels) == allChannels \o channels

\* fetchUserChannels(userId) up to its first await.
StartLoop(v, id) ==
    [IdleLoop EXCEPT !.st = "waiting", !.user = id,
                     !.cursor = InitialCursor(v),
                     !.nreq = 1, !.reqCursor = InitialCursor(v)]

\* The try block up to its first await: the text is parsed, and either the
\* usage hint is said or one users.info call per user ID is issued.
TryBlockStart(txt) ==
    /\ userIds' = UserIds(variant, txt)
    /\ IF UsageBranch(variant, userIds')
       THEN /\ says' = Append(says, SayCall("usage", UsageMessage(variant)))
            /\ pc' = "say"
            /\ UNCHANGED lookup
       ELSE /\ lookup' = [i \in 1..Len(userIds') |-> [st |-> "inflight", user |-> NoUser]]
            /\ pc' = "lookup"
            /\ UNCHANGED says

\* A handler that does not await ack(): it goes on into the try block while
\* the acknowledgment is still in flight.
InvokeWithoutAwait ==
    /\ pc = "idle"
    /\ \E txt \in Texts : text' = txt /\ TryBlockStart(txt)
    /\ ack' = "called"
    /\ UNCHANGED <<prev, variant, loop, cmp, caught, logged, failures>>

\* The command arrives: the handler calls ack() and awaits it.
Invoke ==
    /\ pc = "idle"
    /\ \E txt \in Texts : text' = txt
    /\ ack' = "called"
    /\ pc' = "ack"
    /\ UNCHANGED <<prev, variant, userIds, lookup, loop, cmp, says, caught, logged,
                   failures>>

\* ack() rejects: the handler rejects, outside its try block.
AckFails ==
    /\ pc = "ack"
    /\ ack' = "failed"
    /\ pc' = "crashed"
    /\ \E m \in AckErrors : failures' = Append(failures, [op |-> "ack", who |-> 0, msg |-> m])
    /\ UNCHANGED <<prev, variant, text, userIds, lookup, loop, cmp, says, caught,
                   logged>>

\* ack() resolves: the handler enters its try block.
AckReturns ==
    /\ pc = "ack"
    /\ ack' = "done"
    /\ TryBlockStart(text)
    /\ UNCHANGED <<prev, variant, text, loop, cmp, caught, logged, failures>>

\* A handler that handles every rejection of a joined operation, not only
\* the first.
EveryRejectionThrows(phase) == TRUE

\* The handler is suspended at the await of this phase, "lookup" or "fetch":
\* the awaited promise (the Promise.all, or the one fetchUserChannels of the
\* single-user branch) is still pending.  Once it has settled, what a
\* sibling operation does later is ignored.
Awaiting(phase) == pc = phase

\* The code after the Promise.all of the lookups, up to its next await.
AfterLookups(info) ==
    IF Len(userIds) = 1
    THEN /\ loop' = [loop EXCEPT ![1] = StartLoop(variant, info[1].id)]
         /\ pc' = "fetch"
         /\ UNCHANGED says
    ELSE IF variant = "B" \/ Len(userIds) = 2
    THEN /\ loop' = [j \in 1..2 |-> StartLoop(variant, info[j].id)]
         /\ pc' = "fetch"
         /\ UNCHANGED says
    ELSE /\ says' = Append(says, SayCall("max", MaxUsersMessage))
         /\ pc' = "say"
         /\ UNCHANGED loop

\* A handler that goes on as soon as one lookup has resolved.
LookupReturnsEager(i) ==
    /\ i \in 1..Len(lookup)
    /\ lookup[i].st = "inflight"
    /\ lookup' = [lookup EXCEPT ![i] = [st |-> "ok", user |-> ProfileOf(userIds[i])]]
    /\ IF Awaiting("lookup")
       THEN AfterLookups([k \in 1..Len(lookup) |-> lookup'[k].user])
       ELSE UNCHANGED <<pc, loop, says>>
    /\ UNCHANGED <<prev, variant, text, ack, userIds, cmp, caught, logged, failures>>

\* users.info resolves for the i-th user ID.
LookupReturns(i) ==
    /\ i \in 1..Len(lookup)
    /\ lookup[i].st = "inflight"
    /\ lookup' = [lookup EXCEPT ![i] = [st |-> "ok", user |-> ProfileOf(userIds[i])]]
    /\ IF Awaiting("lookup") /\ \A k \in 1..Len(lookup) : lookup'[k].st = "ok"
       THEN AfterLookups([k \in 1..Len(lookup) |-> lookup'[k].user])
       ELSE UNCHANGED <<pc, loop, says>>
    /\ UNCHANGED <<prev, variant, text, ack, userIds, cmp, caught, logged, failures>>

\* A lookup whose rejection is swallowed: the handler never learns of it.
LookupFailsSwallowed(i) ==
    /\ i \in 1..Len(lookup)
    /\ lookup[i].st = "inflight"
    /\ lookup' = [lookup EXCEPT ![i].st = "failed"]
    /\ \E m \in LookupErrors :
         failures' = Append(failures, [op |-> "lookup", who |-> i, msg |-> m])
    /\ UNCHANGED <<prev, variant, text, ack, userIds, loop, cmp, pc, says, caught, logged>>

\* users.info rejects for the i-th user ID: the first rejection rejects the
\* Promise.all, a later one is ignored.
LookupFails(i) ==
    /\ i \in 1..Len(lookup)
    /\ lookup[i].st = "inflight"
    /\ lookup' = [lookup EXCEPT ![i].st = "failed"]
    /\ \E m \in LookupErrors :
         /\ failures' = Append(failures, [op |-> "lookup", who |-> i, msg |-> m])
         /\ IF Awaiting("lookup") THEN Catch(m)
            ELSE UNCHANGED <<pc, says, caught, logged>>
    /\ UNCHANGED <<prev, variant, text, ack, userIds, loop, cmp>>

\* A handler that goes on as soon as one of its loops has returned.
AwaitedAny == {j \in 1..2 : loop'[j].st = "done"}

\* A handler that goes on as soon as the first loop has returned.
AwaitedFirstOnly == {1}

\* The loops the current branch awaits.
Awaited == IF Len(userIds) = 1 THEN {1} ELSE {1, 2}

\* The code after the channels are fetched, up to its await of say.
AfterFetch(lp) ==
    IF Len(userIds) = 1
    THEN /\ says' = Append(says, SayCall("single",
                       SingleUserMessage(variant, lookup[1].user, lp[1].all)))
         /\ UNCHANGED cmp
    ELSE /\ cmp' = Comparison(lp[1].all, lp[2].all)
         /\ says' = Append(says, SayCall("comparison",
                       ComparisonMessage(variant, lookup[1].user, lookup[2].user,
                                         lp[1].all, lp[2].all, cmp')))

\* users.conversations resolves for loop j with a page and a next cursor
\* (meta): the page is appended, and the loop asks for the next page or
\* returns.  The upstream answers with no response_metadata (UNDEFINED), an
\* empty next_cursor, the next fresh cursor, or a cursor it has returned
\* before; sent, nserved, lastMeta, returned and repeated are the upstream's
\* own record of what it served (served: page by page).
PageReturns(j) ==
    /\ loop[j].st = "waiting"
    /\ \E page \in Pages :
       \E meta \in {UNDEFINED, ""}
                   \cup (IF loop[1].nreq + loop[2].nreq < MaxRequests
                         THEN {FreshCursor(loop[j].nserved + 1)} \cup loop[j].returned
                         ELSE {}) :
         LET l == loop[j]
             cur == NextCursor(variant, meta)
             got == [l EXCEPT !.all = ConcatChannels(l.all, page),
                              !.cursor = cur,
                              !.sent = l.sent \o page,
                              !.nserved = l.nserved + 1,
                              !.lastMeta = meta,
                              !.served = Append(l.served, [page |-> page, meta |-> meta]),
                              !.returned = IF Truthy(meta) THEN l.returned \cup {meta}
                                           ELSE l.returned,
                              !.repeated = l.repeated \/ meta \in l.returned]
         IN  IF LoopContinues(cur)
             THEN /\ loop' = [loop EXCEPT ![j] =
                                [got EXCEPT !.nreq = l.nreq + 1, !.reqCursor = cur]]
                  /\ UNCHANGED <<pc, says, cmp>>
             ELSE /\ loop' = [loop EXCEPT ![j] = [got EXCEPT !.st = "done"]]
                  /\ IF Awaiting("fetch") /\ \A k \in Awaited : loop'[k].st = "done"
                     THEN AfterFetch(loop') /\ pc' = "say"
                     ELSE UNCHANGED <<pc, says, cmp>>
    /\ UNCHANGED <<prev, variant, text, ack, userIds, lookup, caught, logged, failures>>

\* A loop whose failure never reaches the handler.
PageFailsUnnoticed(j) ==
    /\ loop[j].st = "waiting"
    /\ loop' = [loop EXCEPT ![j].st = "failed"]
    /\ \E m \in PageErrors :
         failures' = Append(failures, [op |-> "page", who |-> j, msg |-> m])
    /\ UNCHANGED <<prev, variant, text, ack, userIds, lookup, cmp, pc, says,
                   caught, logged>>

\* A handler whose catch block runs for every loop that fails.
PageFailsAlwaysCaught(j) ==
    /\ loop[j].st = "waiting"
    /\ loop' = [loop EXCEPT ![j].st = "failed"]
    /\ \E m \in PageErrors :
         /\ failures' = Append(failures, [op |-> "page", who |-> j, msg |-> m])
         /\ Catch(m)
    /\ UNCHANGED <<prev, variant, text, ack, userIds, lookup, cmp>>

\* users.conversations rejects for loop j: fetchUserChannels rejects.
PageFails(j) ==
    /\ loop[j].st = "waiting"
    /\ loop' = [loop EXCEPT ![j].st = "failed"]
    /\ \E m \in PageErrors :
         /\ failures' = Append(failures, [op |-> "page", who |-> j, msg |-> m])
         /\ IF Awaiting("fetch") THEN Catch(m)
            ELSE UNCHANGED <<pc, says, caught, logged>>
    /\ UNCHANGED <<prev, variant, text, ack, userIds, lookup, cmp>>

\* say resolves: the handler returns.
SayReturns ==
    /\ pc \in {"say", "catch"}
    /\ says' = [says EXCEPT ![Len(says)].st = "ok"]
    /\ pc' = "done"
    /\ UNCHANGED <<prev, variant, text, ack, userIds, lookup, loop, cmp, caught,
                   logged, failures>>

\* A say of the try block rejects: the catch block says the error.
SayFails ==
    /\ pc = "say"
    /\ \E m \in SayErrors :
         /\ failures' = Append(failures, [op |-> "say", who |-> Len(says), msg |-> m])
         /\ logged' = Append(logged, m)
         /\ caught' = m
         /\ says' = Append([says EXCEPT ![Len(says)].st = "failed"],
                           SayCall("error", ErrorMessage(variant, m)))
         /\ pc' = "catch"
    /\ UNCHANGED <<prev, variant, text, ack, userIds, lookup, loop, cmp>>

\* A catch block that says the error once more when its say is rejected.
CatchSayFailsAndRetries ==
    /\ pc = "catch"
    /\ \E m \in SayErrors :
         /\ failures' = Append(failures, [op |-> "say", who |-> Len(says), msg |-> m])
         /\ says' = Append([says EXCEPT ![Len(says)].st = "failed"],
                           SayCall("error", ErrorMessage(variant, m)))
    /\ UNCHANGED <<prev, variant, text, ack, userIds, lookup, loop, cmp, caught,
                   logged, pc>>

\* The say of the catch block rejects: the handler rejects.
CatchSayFails ==
    /\ pc = "catch"
    /\ \E m \in SayErrors : failures' = Append(failures, [op |-> "say", who |-> Len(says), msg |-> m])
    /\ says' = [says EXCEPT ![Len(says)].st = "failed"]
    /\ pc' = "crashed"
    /\ UNCHANGED <<prev, variant, text, ack, userIds, lookup, loop, cmp, caught, logged>>

Next ==
    \/ Invoke
    \/ AckFails
    \/ AckReturns
    \/ \E i \in 1..MaxTokens : LookupReturns(i)
    \/ \E i \in 1..MaxTokens : LookupFails(i)
    \/ \E j \in 1..2 : PageReturns(j)
    \/ \E j \in 1..2 : PageFails(j)
    \/ SayReturns
    \/ SayFails
    \/ CatchSayFails

Spec == Init /\ [][Next]_vars

\* ------------------------------------------------- a smaller upstream

\* The invocation has issued few page requests.
FewRequests == loop[1].nreq + loop[2].nreq <= MaxRequestsFew

\* The handler against an upstream that serves few pages.  Its fairness:
\* while a remote call is outstanding, one of the outstanding calls
\* eventually resolves or rejects and the code that awaits it runs on.
NextLive ==
    \/ Invoke
    \/ AckFails
    \/ AckReturns
    \/ \E i \in 1..MaxTokens : LookupReturns(i)
    \/ \E i \in 1..MaxTokens : LookupFails(i)
    \/ \E j \in 1..2 : PageReturns(j) /\ FewRequests'
    \/ \E j \in 1..2 : PageFails(j)
    \/ SayReturns
    \/ SayFails
    \/ CatchSayFails

SpecLive == Init /\ [][NextLive]_vars /\ WF_vars(NextLive)

\* ------------------------------------------------------ parsing, on its own

\* The command arrives with any text of ParsedTexts.
InvokeParsed ==
    /\ pc = "idle"
    /\ \E txt \in ParsedTexts : text' = txt
    /\ ack' = "called"
    /\ pc' = "ack"
    /\ UNCHANGED <<prev, variant, userIds, lookup, loop, cmp, says, caught,
                   logged, failures>>

\* The handler from the command to its first page requests, against an
\* upstream whose lookups succeed.
NextParse ==
    \/ InvokeParsed
    \/ AckReturns
    \/ \E i \in 1..MaxTokens : LookupReturns(i)

SpecParse == Init /\ [][NextParse]_vars

\* ------------------------------------------------- the command, once more

\* The message of the failure of one remote call, NULL if it did not fail.
FailureMsg(op, who) ==
    LET at == {k \in 1..Len(failures) : failures[k].op = op /\ failures[k].who = who}
    IN  IF at = {} THEN NULL ELSE failures[CHOOSE k \in at : TRUE].msg

\* Every remote call the invocation issued has completed, and the handler
\* has returned or rejected.
Quiescent ==
    /\ pc \in {"done", "crashed"}
    /\ \A i \in 1..Len(lookup) : lookup[i].st # "inflight"
    /\ \A j \in 1..2 : loop[j].st # "waiting"

\* What the upstream gave the invocation, call by call and whatever the
\* order the calls completed in, and what the invocation said.
Given ==
    [run |-> 1,
     ack |-> ack,
     lookup |-> [i \in 1..Len(lookup) |->
                    [st |-> lookup[i].st, msg |-> FailureMsg("lookup", i)]],
     loop |-> [j \in 1..2 |->
                  [st |-> loop[j].st, served |-> loop[j].served,
                   msg |-> FailureMsg("page", j)]],
     says |-> says]

\* s is a prefix of t.
IsPrefix(s, t) == Len(s) <= Len(t) /\ s = SubSeq(t, 1, Len(s))

\* The upstream gives the second invocation what it gave the first: each
\* call that has completed got the result the same call of the first
\* invocation got.
SameUpstream ==
    prev = NoPrev
    \/ /\ ack \in {"called", prev.ack}
       /\ \A i \in 1..Len(lookup) :
             \/ lookup[i].st = "inflight"
             \/ /\ i <= Len(prev.lookup)
                /\ lookup[i].st = prev.lookup[i].st
                /\ FailureMsg("lookup", i) = prev.lookup[i].msg
       /\ \A j \in 1..2 :
             /\ IsPrefix(loop[j].served, prev.loop[j].served)
             /\ loop[j].st \in {"done", "failed"}
                   => /\ loop[j].st = prev.loop[j].st
                      /\ loop[j].served = prev.loop[j].served
                      /\ FailureMsg("page", j) = prev.loop[j].msg
       /\ \A k \in 1..Len(says) :
             \/ says[k].st = "inflight"
             \/ k > Len(prev.says)
             \/ says[k].st = prev.says[k].st

\* The same command arrives again after the first invocation and all its
\* remote calls have ended: the handler starts afresh.
Reinvoke ==
    /\ prev = NoPrev
    /\ Quiescent
    /\ prev' = Given
    /\ ack' = "called"
    /\ pc' = "ack"
    /\ userIds' = <<>>
    /\ lookup' = <<>>
    /\ loop' = [j \in 1..2 |-> IdleLoop]
    /\ cmp' = NoComparison
    /\ says' = <<>>
    /\ caught' = NULL
    /\ logged' = <<>>
    /\ failures' = <<>>
    /\ UNCHANGED <<variant, text>>

\* Two invocations with the same command text, the second against an
\* upstream that repeats what it gave the first.
NextTwice ==
    \/ Invoke
    \/ AckFails /\ SameUpstream'
    \/ AckReturns /\ SameUpstream'
    \/ \E i \in 1..MaxTokens : LookupReturns(i) /\ SameUpstream'
    \/ \E i \in 1..MaxTokens : LookupFails(i) /\ SameUpstream'
    \/ \E j \in 1..2 : PageReturns(j) /\ SameUpstream' /\ FewRequests'
    \/ \E j \in 1..2 : PageFails(j) /\ SameUpstream'
    \/ SayReturns /\ SameUpstream'
    \/ SayFails /\ SameUpstream'
    \/ CatchSayFails /\ SameUpstream'
    \/ Reinvoke

SpecTwice == Init /\ [][NextTwice]_vars

\* ==================================================================== claims

SayIndexes == 1..Len(says)

\* The say calls issued at one place of the code.
SaysAt(site) == {k \in SayIndexes : says[k].site = site}

\* The invocation has issued a page request.
PageRequested == \E j \in 1..2 : loop[j].nreq > 0

\* C1 (as claimed): when the parser extracts 0 or more than 2 user IDs from
\* the command text, the response is the usage-error response and the
\* invocation issues no remote call: no users.info call and no
\* users.conversations call, in variant A and in variant B.
C1_UsageWithoutRemoteCalls ==
    (ack = "done" /\ Len(UserIds(variant, text)) \notin {1, 2})
        => /\ lookup = <<>>
           /\ ~PageRequested
           /\ says # <<>>
           /\ says[1].site \in {"usage", "max"}

\* C2 (as claimed): every invocation issues exactly one say call: it never
\* issues more than one, and once the handler has returned it has issued
\* one.
C2_ExactlyOneSay ==
    /\ Len(says) <= 1
    /\ (pc = "done" => Len(says) = 1)

\* C2 (amended): an invocation whose ack has not resolved issues no say
\* call.  One whose ack resolved issues one say call, and a second one, the
\* error response of the catch block, only when the first was rejected; so
\* at most one say call succeeds, and on every path on which no say call is
\* rejected (usage error, single-user report, two-user comparison, failure
\* of a lookup or of a page request, of one or of both concurrent
\* operations) exactly one say call is issued.
C2_OneSayUnlessRejected ==
    /\ (ack # "done" => says = <<>>)
    /\ Len(says) <= 2
    /\ (Len(says) = 2 => says[1].st = "failed" /\ says[2].site = "error")
    /\ (says # <<>> /\ says[1].st # "failed" => Len(says) = 1)
    /\ Cardinality({k \in SayIndexes : says[k].st = "ok"}) <= 1
    /\ (pc \in {"say", "catch", "done"} => says # <<>>)
    /\ (pc = "crashed" /\ ack = "done" => says # <<>>)
    /\ (pc = "done" => says[Len(says)].st = "ok")

\* C2 witness: both concurrent pagination loops have failed and the handler
\* has returned after its one say call.
C2_BothLoopsFailedOneSay ==
    /\ pc = "done"
    /\ loop[1].st = "failed"
    /\ loop[2].st = "failed"
    /\ Len(says) = 1
    /\ says[1].st = "ok"

\* C3: the acknowledgment completes before any remote call and before any
\* response: until ack() has resolved, no users.info call, no
\* users.conversations call and no say call has been issued.  The
\* acknowledgment is an effect of its own: it is no say call.
C3_AckBeforeEffects ==
    ack # "done" => /\ lookup = <<>>
                    /\ ~PageRequested
                    /\ says = <<>>

\* C3 witness: after the acknowledgment, lookups and page requests have been
\* issued and a response has been said.
C3_AckedThenFetchedAndSaid ==
    /\ ack = "done"
    /\ lookup # <<>>
    /\ PageRequested
    /\ says # <<>>

\* The two-user comparison has been computed and said.
Compared == SaysAt("comparison") # {}

\* C4: in the two-user branch, as sets of channel IDs, shared and
\* uniqueToFirst together are the channels the upstream listed for the first
\* user, shared and uniqueToSecond together those it listed for the second,
\* uniqueToFirst holds no channel of the second user, and the three are
\* pairwise disjoint.
C4_ComparisonPartitions ==
    Compared =>
        LET set1 == IdSet(loop[1].sent)
            set2 == IdSet(loop[2].sent)
            shared == IdSet(cmp.shared)
            first == IdSet(cmp.u1Only)
            second == IdSet(cmp.u2Only)
        IN  /\ shared \cup first = set1
            /\ shared \cup second = set2
            /\ first \cap set2 = {}
            /\ shared \cap first = {}
            /\ shared \cap second = {}
            /\ first \cap second = {}

\* C4 witness: a comparison of two overlapping listings, with a shared
\* channel and a channel only the first user has.
C4_OverlappingCompared ==
    /\ Compared
    /\ cmp.shared # <<>>
    /\ cmp.u1Only # <<>>
    /\ IdSet(loop[1].sent) # IdSet(loop[2].sent)

\* C5: a pagination loop that has returned has issued exactly one request
\* per page the upstream served, the last page being the only one without a
\* next cursor, and returns the concatenation of the pages' channels in page
\* order (the empty sequence for one empty page); while it has not returned,
\* it has one request outstanding, issued after a page with a next cursor.
C5_PaginationConcatenates ==
    \A j \in 1..2 :
        /\ loop[j].st = "done"
              => /\ loop[j].all = loop[j].sent
                 /\ loop[j].nreq = loop[j].nserved
                 /\ loop[j].nserved >= 1
                 /\ ~Truthy(loop[j].lastMeta)
        /\ loop[j].st = "waiting"
              => /\ loop[j].nreq = loop[j].nserved + 1
                 /\ (loop[j].nserved >= 1 => Truthy(loop[j].lastMeta))

\* C5 witness: a loop has returned two different channels fetched over three
\* pages.
C5_ThreePagesFetched ==
    \E j \in 1..2 :
        /\ loop[j].st = "done"
        /\ loop[j].nserved = 3
        /\ Len(loop[j].sent) >= 2
        /\ loop[j].sent[1] # loop[j].sent[2]

\* C6 (as claimed): the pagination loop is guarded against a repeating
\* cursor: once the upstream has returned a next cursor it had returned
\* before, the loop issues no further page request.
C6_RepeatingCursorStopsLoop ==
    \A j \in 1..2 : loop[j].repeated => loop[j].st # "waiting"

\* C7: when a user lookup has failed, the one response of the invocation is
\* the error response of the catch block: no single-user report and no
\* comparison is said, whether or not the other lookup resolved, and no
\* comparison is computed.
C7_LookupFailureAborts ==
    (\E i \in 1..Len(lookup) : lookup[i].st = "failed")
        => /\ Len(says) = 1
           /\ says[1].site = "error"
           /\ says[1].arg.blocks = <<>>
           /\ SaysAt("single") = {}
           /\ SaysAt("comparison") = {}
           /\ cmp = NoComparison

\* C7 witness: of two lookups one resolved and one failed, and the handler
\* has returned.
C7_OneResolvedOneFailed ==
    /\ Len(userIds) = 2
    /\ \E i, k \in 1..2 : lookup[i].st = "ok" /\ lookup[k].st = "failed"
    /\ pc = "done"

\* C8: when the first failure of the invocation is a failed user lookup or a
\* failed page request (on any page of either loop), the one response is the
\* say of the catch block: a text with no blocks, made of the variant's
\* fixed prefix and the message of that failure, the same for both kinds of
\* failure.
C8_FailuresSayGenericError ==
    (failures # <<>> /\ failures[1].op \in {"lookup", "page"})
        => /\ Len(says) = 1
           /\ says[1].site = "error"
           /\ says[1].arg = [blocks |-> <<>>,
                             text |-> <<ErrorPrefix(variant) \o failures[1].msg>>]
           /\ caught = failures[1].msg

\* C8 witness: the second loop's second page request failed, and the error
\* response was delivered.
C8_SecondPageFailed ==
    /\ failures # <<>>
    /\ failures[1].op = "page"
    /\ loop[2].st = "failed"
    /\ loop[2].nserved = 1
    /\ says # <<>>
    /\ says[1].st = "ok"

\* The line of a channel in the single-user list.
ExpectedItem(c) ==
    IF variant = "A" THEN "- #" \o c.name
    ELSE "- <#" \o c.id \o "|" \o c.name \o ">"

\* The lines that are list items of some channel.
ItemLines ==
    {"- #" \o c.name : c \in Channels}
    \cup {"- <#" \o c.id \o "|" \o c.name \o ">" : c \in Channels}

IsPlaceholder(line) == line # "" /\ line \notin ItemLines

\* C10 (as claimed): in every report a list without entries is shown as a
\* placeholder line: the channel list of the single-user report, and the
\* shared, unique-to-first and unique-to-second lists of the comparison, in
\* both variants.
C10_EmptyListShowsPlaceholder ==
    /\ \A k \in SaysAt("single") :
          loop[1].sent = <<>>
              => LET t == says[k].arg.blocks[1].text
                 IN  Len(t) = 5 /\ IsPlaceholder(t[5])
    /\ \A k \in SaysAt("comparison") :
          LET b == says[k].arg.blocks
              set1 == IdSet(loop[1].sent)
              set2 == IdSet(loop[2].sent)
          IN  /\ Len(b) = 7
              /\ set1 \cap set2 = {}
                    => Len(b[5].text) = 2 /\ IsPlaceholder(b[5].text[2])
              /\ set1 \ set2 = {}
                    => Len(b[6].text) = 2 /\ IsPlaceholder(b[6].text[2])
              /\ set2 \ set1 = {}
                    => Len(b[7].text) = 2 /\ IsPlaceholder(b[7].text[2])

\* a is a subsequence of b: the entries of a occur in b, in the order of a.
RECURSIVE IsSubseq(_, _)
IsSubseq(a, b) ==
    IF a = <<>> THEN TRUE
    ELSE IF b = <<>> THEN FALSE
         ELSE IF Head(a) = Head(b) THEN IsSubseq(Tail(a), Tail(b))
              ELSE IsSubseq(a, Tail(b))

\* The line of a channel in a list of the comparison report.
ExpectedLink(c) == "- <#" \o c.id \o "|" \o c.name \o ">"

\* The list a block of the comparison report shows under its heading.
ShownList(block) == Tail(block.text)

\* C11: in the two-user branch, shared and uniqueToFirst are subsequences of
\* the first user's listing in the order the upstream served it, and
\* uniqueToSecond is a subsequence of the second user's; the itemized lists
\* of the report show the channels of each in that same order.
C11_FiltersKeepFetchOrder ==
    /\ Compared
          => /\ IsSubseq(cmp.shared, loop[1].sent)
             /\ IsSubseq(cmp.u1Only, loop[1].sent)
             /\ IsSubseq(cmp.u2Only, loop[2].sent)
    /\ \A k \in SaysAt("comparison") :
          LET b == says[k].arg.blocks
          IN  /\ cmp.shared # <<>>
                    => ShownList(b[5]) = [i \in 1..Len(cmp.shared) |-> ExpectedLink(cmp.shared[i])]
              /\ cmp.u1Only # <<>>
                    => ShownList(b[6]) = [i \in 1..Len(cmp.u1Only) |-> ExpectedLink(cmp.u1Only[i])]
              /\ cmp.u2Only # <<>>
                    => ShownList(b[7]) = [i \in 1..Len(cmp.u2Only) |-> ExpectedLink(cmp.u2Only[i])]

\* C11 witness: the two users share two channels, which the upstream listed
\* in opposite orders, and the comparison has been said.
C11_SharedInOppositeOrders ==
    /\ Compared
    /\ Len(cmp.shared) = 2
    /\ cmp.shared[1] # cmp.shared[2]
    /\ Len(loop[2].sent) = 2
    /\ loop[2].sent = <<loop[1].sent[2], loop[1].sent[1]>>
    /\ loop[1].sent = cmp.shared

\* The second invocation of the command has ended.
SecondEnded == prev # NoPrev /\ pc \in {"done", "crashed"}

\* The responses that were sent: the say calls that were delivered.
Delivered(ss) == SelectSeq(ss, LAMBDA x : x.st = "ok")

\* C12 (as claimed): two invocations with the same command text against an
\* upstream that returns identical results (profiles, pages, cursors and
\* failures) send identical responses, whatever the order in which the
\* concurrent lookups and the page requests of the two loops complete.
C12_SameUpstreamSameResponse ==
    SecondEnded => Delivered(says) = Delivered(prev.says)

\* The messages of the lookups, and of the loops, that failed in the first
\* invocation.
LookupFailureMsgs == {prev.lookup[i].msg : i \in 1..Len(prev.lookup)} \ {NULL}
LoopFailureMsgs == {prev.loop[j].msg : j \in 1..2} \ {NULL}

\* C12 (amended): two invocations with the same command text against an
\* upstream that returns identical results issue identical say calls, with
\* identical outcomes, whatever the order in which the concurrent calls
\* complete, unless concurrent operations (the lookups, or the two loops)
\* fail with different messages: then both invocations say the error
\* response, each with the message of one of those failures, the one that
\* arrived first in that invocation.
C12_SameResponseUnlessFailuresRace ==
    SecondEnded =>
        IF Cardinality(LookupFailureMsgs) <= 1 /\ Cardinality(LoopFailureMsgs) <= 1
        THEN says = prev.says
        ELSE /\ Len(says) = Len(prev.says)
             /\ Len(says) >= 1
             /\ \A k \in 1..Len(says) :
                   /\ says[k].site = "error"
                   /\ prev.says[k].site = "error"
                   /\ says[k].st = prev.says[k].st
             /\ says[1].arg.text[1] = ErrorPrefix(variant) \o failures[1].msg
             /\ failures[1].msg \in LookupFailureMsgs \cup LoopFailureMsgs

\* C12 witness: the second invocation has compared the different listings
\* of two users and said what the first had said.
C12_ComparedTwice ==
    /\ SecondEnded
    /\ Compared
    /\ loop[1].sent # <<>>
    /\ loop[2].sent # <<>>
    /\ loop[1].sent # loop[2].sent
    /\ says[1].st = "ok"
    /\ says = prev.says

\* The tokens of the command text, as the places <<a, b>> where one starts
\* and ends: the maximal runs of characters that are no white space.
TokenSpans ==
    LET starts == {a \in 1..Len(text) :
                      /\ text[a] \notin WhiteSpace
                      /\ a = 1 \/ text[a - 1] \in WhiteSpace}
        ends == {b \in 1..Len(text) :
                    /\ text[b] \notin WhiteSpace
                    /\ b = Len(text) \/ text[b + 1] \in WhiteSpace}
    IN  {<<a, CHOOSE b \in ends : b >= a /\ \A c \in ends : c >= a => b <= c>> :
            a \in starts}

\* The mentions <@ID> inside a token, as <<i, n>>: where the mention starts
\* and how long its ID is.
MentionsIn(sp) ==
    {m \in {i \in sp[1]..sp[2] : text[i] = "<"} \X (1..(sp[2] - sp[1])) :
        /\ m[1] + m[2] + 2 <= sp[2]
        /\ text[m[1] + 1] = "@"
        /\ \A n \in (m[1] + 2)..(m[1] + 1 + m[2]) : text[n] \in IdChars
        /\ text[m[1] + 2 + m[2]] = ">"}

\* The ID of the first of the mentions ms.
FirstId(ms) ==
    LET m == CHOOSE x \in ms : \A y \in ms : x[1] <= y[1]
    IN  SubSeq(text, m[1] + 2, m[1] + 1 + m[2])

\* The user IDs of the tokens that match the mention pattern, one per
\* token, in token order.
ExpectedIds ==
    LET matching == {sp \in TokenSpans : MentionsIn(sp) # {}}
    IN  [k \in 1..Cardinality(matching) |->
            FirstId(MentionsIn(CHOOSE sp \in matching :
                        Cardinality({t \in matching : t[1] <= sp[1]}) = k))]

\* C13: the parser yields one user ID per white-space-separated token that
\* matches the mention pattern, in token order, repeated IDs included;
\* tokens that do not match add nothing and raise no error.  The number of
\* matching tokens selects the branch: none, or more than two, leads to a
\* usage response and no page request; one to one lookup and one loop; two,
\* also of the same ID, to two lookups and two loops, each for its ID.
C13_OneIdPerMatchingToken ==
    ack = "done" =>
        LET ids == ExpectedIds
        IN  /\ userIds = ids
            /\ caught = NULL
            /\ failures = <<>>
            /\ SaysAt("error") = {}
            /\ Len(ids) = 0 => lookup = <<>> /\ SaysAt("usage") # {}
            /\ Len(ids) > 0 =>
                  /\ Len(lookup) = Len(ids) \/ SaysAt("usage") # {}
                  /\ \A i \in 1..Len(lookup) :
                        lookup[i].st = "ok" => lookup[i].user.id = ids[i]
            /\ Len(ids) \notin {1, 2}
                  => /\ ~PageRequested
                     /\ pc = "say" => SaysAt("usage") \cup SaysAt("max") # {}
            /\ Len(ids) \in {1, 2}
                  => /\ says = <<>>
                     /\ \A j \in 1..2 :
                           IF j <= Len(ids) /\ pc = "fetch"
                           THEN loop[j].nreq = 1 /\ loop[j].user = ids[j]
                           ELSE loop[j].nreq = 0

\* C13 witness: of three tokens one does not match and the two others
\* mention the same user: two lookups were made and two loops are under way
\* for that one ID.
C13_SameUserTwice ==
    /\ pc = "fetch"
    /\ Len(Split(Trim(text))) = 3
    /\ Len(userIds) = 2
    /\ userIds[1] = userIds[2]
    /\ loop[1].user = loop[2].user
    /\ loop[2].nreq = 1

\* No channel ID occurs twice in ch.
NoDuplicateIds(ch) == Cardinality(IdSet(ch)) = Len(ch)

\* C14 (as claimed): when the upstream lists a channel ID more than once for
\* a user, each channel ID still occurs at most once in each of shared,
\* uniqueToFirst and uniqueToSecond and in the list of the single-user
\* report, and the totals and counts of the reports count distinct channel
\* IDs.
C14_DuplicatesCountOnce ==
    /\ Compared
          => LET set1 == IdSet(loop[1].sent)
                 set2 == IdSet(loop[2].sent)
             IN  /\ NoDuplicateIds(cmp.shared)
                 /\ NoDuplicateIds(cmp.u1Only)
                 /\ NoDuplicateIds(cmp.u2Only)
                 /\ Len(cmp.shared) = Cardinality(set1 \cap set2)
                 /\ Len(cmp.u1Only) = Cardinality(set1 \ set2)
                 /\ Len(cmp.u2Only) = Cardinality(set2 \ set1)
    /\ \A k \in SaysAt("single") :
          LET ch == loop[1].sent
              t == says[k].arg.blocks[1].text
          IN  /\ t[3] = (IF variant = "A" THEN "Total Channels: " ELSE "*Total:* ")
                            \o ToString(Cardinality(IdSet(ch)))
              /\ \A i \in 1..Len(ch) :
                    Cardinality({n \in 5..Len(t) : t[n] = ExpectedItem(ch[i])}) = 1

\* C15: in the two-user branch the comparison is computed and said only
\* after both pagination loops have returned, each having received a page
\* without a next cursor and holding all the upstream served it; while a
\* loop still waits for a page, no comparison has been computed or said.
C15_ComparisonAfterBothLoops ==
    /\ (Compared \/ cmp # NoComparison)
          => \A j \in 1..2 :
                /\ loop[j].st = "done"
                /\ loop[j].nserved >= 1
                /\ loop[j].nreq = loop[j].nserved
                /\ ~Truthy(loop[j].lastMeta)
    /\ \A k \in SaysAt("comparison") :
          says[k].arg = ComparisonMessage(variant, ProfileOf(userIds[1]),
                                          ProfileOf(userIds[2]),
                                          loop[1].sent, loop[2].sent,
                                          [shared |-> cmp.shared,
                                           u1Only |-> cmp.u1Only,
                                           u2Only |-> cmp.u2Only])

\* C15 witness: the comparison has been said after the second loop returned
\* first and the first loop fetched a further page.
C15_SecondLoopReturnedFirst ==
    /\ Compared
    /\ loop[1].nserved = 3
    /\ loop[2].nserved = 1
    /\ loop[1].sent # <<>>
    /\ loop[2].sent # <<>>

\* A request that carries no cursor.
NoCursor(c) == ~Truthy(c)

\* C16: the page requests of one user are strictly sequential.  A loop has
\* issued at most one request more than it has received responses, so at
\* most one is outstanding and a request is issued only after the response
\* to the one before; its first request carries no cursor, and each later
\* request carries the next cursor of the response before it.
C16_PagingIsSequential ==
    \A j \in 1..2 :
        /\ loop[j].nserved <= loop[j].nreq
        /\ loop[j].nreq <= loop[j].nserved + 1
        /\ loop[j].nserved = Len(loop[j].served)
        /\ loop[j].st = "waiting" => loop[j].nreq = loop[j].nserved + 1
        /\ loop[j].st = "done" => loop[j].nreq = loop[j].nserved
        /\ loop[j].nreq = loop[j].nserved + 1
              => IF loop[j].nserved = 0
                 THEN NoCursor(loop[j].reqCursor)
                 ELSE /\ loop[j].reqCursor = loop[j].served[loop[j].nserved].meta
                      /\ ~NoCursor(loop[j].reqCursor)

\* C16 witness: a loop waits for its third page, asked for with the cursor
\* of the second, which differs from that of the first.
C16_ThirdRequestOutstanding ==
    \E j \in 1..2 :
        /\ loop[j].st = "waiting"
        /\ loop[j].nreq = 3
        /\ loop[j].served[1].meta # loop[j].served[2].meta
        /\ loop[j].reqCursor = loop[j].served[2].meta

\* C17: user resolution gates everything after it.  The lookups of an
\* invocation are all issued together, one per user ID, before any has
\* completed; a page request has been issued only if every lookup of the
\* invocation has succeeded; and once a lookup has failed, no page request
\* has been or is ever issued.
C17_LookupsGateFetches ==
    /\ lookup # <<>> => Len(lookup) = Len(userIds)
    /\ (ack = "done" /\ ~UsageBranch(variant, userIds)) => Len(lookup) = Len(userIds)
    /\ PageRequested
          => /\ lookup # <<>>
             /\ \A i \in 1..Len(lookup) : lookup[i].st = "ok"
    /\ (\E i \in 1..Len(lookup) : lookup[i].st = "inflight") => ~PageRequested
    /\ (\E i \in 1..Len(lookup) : lookup[i].st = "failed")
          => /\ ~PageRequested
             /\ pc \notin {"lookup", "fetch"}

\* C17 witness: both lookups of a two-user command have succeeded and both
\* loops have issued page requests.
C17_FetchingAfterBothLookups ==
    /\ Len(lookup) = 2
    /\ \A i \in 1..2 : lookup[i].st = "ok"
    /\ loop[1].nreq >= 1
    /\ loop[2].nreq >= 1

\* The handler has caught the failure of a lookup or of a page request.
CaughtRemoteFailure ==
    /\ caught # NULL
    /\ failures # <<>>
    /\ failures[1].op \in {"lookup", "page"}

\* A step of a remote call other than say: a lookup or a page request
\* completes.
SiblingStep == lookup' # lookup \/ loop' # loop

\* C18: of two concurrent operations, the first failure alone decides the
\* result.  The step in which the first lookup or page request fails issues
\* the error response with that failure's message; after it the sibling
\* operation goes on, and whatever a step of it brings (a result, a further
\* request, a failure) leaves the caught error, the say calls, the
\* comparison and the handler's position as they were: no further response
\* is issued.
C18_FirstFailureDecides ==
    [][/\ (failures = <<>> /\ failures' # <<>> /\ failures'[1].op \in {"lookup", "page"})
             => /\ caught' = failures'[1].msg
                /\ Len(says') = 1
                /\ says'[1].site = "error"
                /\ says'[1].arg.text = <<ErrorPrefix(variant) \o failures'[1].msg>>
       /\ (CaughtRemoteFailure /\ SiblingStep)
             => /\ caught' = caught
                /\ says' = says
                /\ cmp' = cmp
                /\ pc' = pc
                /\ logged' = logged
       /\ CaughtRemoteFailure
             => /\ Len(says') = 1
                /\ says'[1].arg = says[1].arg
                /\ caught' = failures[1].msg]_vars

\* C18 witness: the first loop failed on its first page, the error response
\* was delivered and the handler returned, and the second loop, which got a
\* page meanwhile, still has a request outstanding.
C18_SiblingGoesOn ==
    /\ pc = "done"
    /\ loop[1].st = "failed"
    /\ loop[1].nserved = 0
    /\ says[1].st = "ok"
    /\ says[1].site = "error"
    /\ loop[2].st = "waiting"
    /\ loop[2].nserved >= 1

\* ack or a say call was rejected.
AckOrSayRejected ==
    \E k \in 1..Len(failures) : failures[k].op \in {"ack", "say"}

\* The handler has returned and its response was delivered.
Responded ==
    /\ pc = "done"
    /\ Len(says) = 1
    /\ says[1].st = "ok"

\* C19: when every remote call eventually resolves or rejects, every listing
\* ends after finitely many pages with a page without a next cursor, and
\* neither ack nor say is rejected, an invocation eventually returns having
\* delivered its one response, on every path: usage, single-user report,
\* comparison, failed lookup, failed page request.
C19_EventuallyResponds ==
    (pc # "idle") ~> (Responded \/ AckOrSayRejected)

\* C19 witness: the handler has returned with the comparison of two
\* listings delivered.
C19_RespondedWithComparison ==
    /\ Responded
    /\ Compared
    /\ loop[1].sent # <<>>
    /\ loop[2].sent # <<>>

\* The invocation has ended: the handler has returned or rejected.
Ended == pc \in {"done", "crashed"}

\* The say calls of the try block.
TrySites == {"usage", "max", "single", "comparison"}

\* C20 (as claimed): an invocation that has ended has attempted one or two
\* say calls, two only when the first, a say of the try block, failed; an
\* error say that fails is followed by no other, and a say that succeeded is
\* followed by no other.
C20_OneOrTwoSayAttempts ==
    /\ Ended => Len(says) \in {1, 2}
    /\ Len(says) = 2 => says[1].site \in TrySites /\ says[1].st = "failed"
    /\ \A k \in SayIndexes : says[k].st = "ok" => k = Len(says)
    /\ \A k \in SayIndexes :
          (says[k].site = "error" /\ says[k].st = "failed") => k = Len(says)

\* C20 (amended): an invocation whose ack was rejected attempts no say call.
\* One whose ack resolved has, when it ends, attempted one or two say calls,
\* two only when the first, a say of the try block, failed: the second is
\* the error say of the catch block.  When an error say fails the handler
\* rejects and attempts no further say; a say that succeeded is followed by
\* no other.
C20_OneOrTwoSayAttemptsAfterAck ==
    /\ ack # "done" => says = <<>>
    /\ (Ended /\ ack = "failed") => pc = "crashed" /\ says = <<>>
    /\ (Ended /\ ack = "done") => Len(says) \in {1, 2}
    /\ Len(says) <= 2
    /\ Len(says) = 2
          => /\ says[1].site \in TrySites
             /\ says[1].st = "failed"
             /\ says[2].site = "error"
             /\ says[2].arg.text = <<ErrorPrefix(variant) \o caught>>
    /\ \A k \in SayIndexes : says[k].st = "ok" => k = Len(says) /\ pc = "done"
    /\ \A k \in SayIndexes :
          (says[k].site = "error" /\ says[k].st = "failed")
              => k = Len(says) /\ pc = "crashed"
    /\ \A k \in SayIndexes : says[k].st = "inflight" => k = Len(says) /\ ~Ended

\* C20 witness: the comparison say failed, and the error say after it
\* failed too: the handler has rejected after two say attempts.
C20_BothSaysFailed ==
    /\ pc = "crashed"
    /\ Len(says) = 2
    /\ says[1].site = "comparison"
    /\ says[1].st = "failed"
    /\ says[2].st = "failed"

====
